---- MODULE Spec2Model ----
(***************************************************************************)
(* Model of the broadcast node of maelstrom-rust (src/bin/broadcast.rs):   *)
(* the BroadcastMaelstromNode state, its Processor::process handlers and   *)
(* the anti-entropy sweep broadcast_all_seen_messages.                     *)
(*                                                                         *)
(* Strings are sequences of characters (<<"n","1">> is "n1") so that       *)
(* starts_with is computed, not tabulated.  Option<T> is a sequence of     *)
(* length at most one: None is <<>> and Some(x) is <<x>>.  The iteration   *)
(* order of a HashSet / HashMap is not fixed by the program, so every      *)
(* handler that iterates takes the order as a nondeterministic input.      *)
(***************************************************************************)
EXTENDS Integers, Sequences, FiniteSets, Bags, TLC

\* ---------------------------------------------------------------- bounds
MaxValue == 2
MaxId == 4
MaxNetIds == 13
MaxClientBroadcasts == 1
MaxLossyBroadcasts == 2
MaxLossyIds == 12
MaxDuplicates == 1
MaxGossipBroadcasts == 2
MaxGossipIds == 15

\* ------------------------------------------------------------- constants
InitialId == 1

None == <<>>
Some(x) == <<x>>

n1 == <<"n", "1">>
n2 == <<"n", "2">>
n3 == <<"n", "3">>
c1 == <<"c", "1">>

NodeNames == {n1, n2, n3}
Names == NodeNames \cup {c1}
Values == 1..MaxValue
InMsgIds == {None, Some(1)}

\* str::starts_with(char)
starts_with(s, c) == Len(s) >= 1 /\ s[1] = c

\* The orders in which a HashSet (or the keys of a HashMap) may be iterated:
\* every element exactly once, in an order the program does not control.
IterOrders(S) == {f \in [1..Cardinality(S) -> S] : \A i, j \in 1..Cardinality(S) : i # j => f[i] # f[j]}

\* ------------------------------------------------------------- messages
InitBody(node_id, node_ids) == [type |-> "init", node_id |-> node_id, node_ids |-> node_ids]
InitOkBody == [type |-> "init_ok"]
BroadcastBody(message) == [type |-> "broadcast", message |-> message]
BroadcastOkBody == [type |-> "broadcast_ok"]
ReadBody == [type |-> "read"]
ReadOkBody(messages) == [type |-> "read_ok", messages |-> messages]
TopologyBody(topology) == [type |-> "topology", topology |-> topology]
TopologyOkBody == [type |-> "topology_ok"]

Message(src, dest, msg_id, in_reply_to, body) == [src |-> src, dest |-> dest, body |-> [msg_id |-> msg_id, in_reply_to |-> in_reply_to, body |-> body]]

\* ----------------------------------------------------------- node state
BroadcastMaelstromNode(id, node_id, messages, messages_shared_per_node, node_ids) == [id |-> id, node_id |-> node_id, messages |-> messages, messages_shared_per_node |-> messages_shared_per_node, node_ids |-> node_ids]

EmptyMap == [p \in {} |-> {}]

DefaultNode == BroadcastMaelstromNode(InitialId, None, {}, EmptyMap, {})

\* Reply with the node's own id as the source instead of the inbound dest.
Reply_FromSelf(self, msg, body) == Message(self.node_id, msg.src, Some(self.id), msg.body.msg_id, body)

\* The direct reply of every handler: from the inbound dest to the inbound
\* src, numbered with the counter, correlated to the inbound msg_id.
Reply(self, msg, body) == Message(msg.dest, msg.src, Some(self.id), msg.body.msg_id, body)

\* RetainOthers without the retain: the node's own id stays in the set.
RetainOthers_KeepAll(node_ids, node_id) == node_ids

\* HashSet::retain(|n| n != &node_id)
RetainOthers(node_ids, node_id) == {n \in node_ids : n # node_id}

\* HandleInit that also starts the delivered set afresh.
HandleInit_ClearsDelivered(self, msg) ==
  LET node_id == msg.body.body.node_id
      node_ids == msg.body.body.node_ids
  IN [ok |-> TRUE,
      out |-> <<Reply(self, msg, InitOkBody)>>,
      node |-> [self EXCEPT !.id = self.id + 1,
                            !.node_id = Some(node_id),
                            !.node_ids = RetainOthers(node_ids, node_id),
                            !.messages = {}]]

HandleInit(self, msg) ==
  LET node_id == msg.body.body.node_id
      node_ids == msg.body.body.node_ids
  IN [ok |-> TRUE,
      out |-> <<Reply(self, msg, InitOkBody)>>,
      node |-> [self EXCEPT !.id = self.id + 1,
                            !.node_id = Some(node_id),
                            !.node_ids = RetainOthers(node_ids, node_id)]]

\* HandleRead answering with an empty set instead of the delivered set.
HandleRead_Empty(self, msg) ==
  [ok |-> TRUE,
   out |-> <<Reply(self, msg, ReadOkBody({}))>>,
   node |-> [self EXCEPT !.id = self.id + 1]]

\* HandleRead that also sends one delivered value again to every tracked peer.
HandleRead_Resend(self, msg) ==
  LET peers == CHOOSE s \in IterOrders(DOMAIN self.messages_shared_per_node) : TRUE
      resend == IF self.messages = {} THEN <<>>
                ELSE [i \in 1..Len(peers) |->
                        Message(self.node_id, Some(peers[i]), Some(self.id + i), None,
                                BroadcastBody(CHOOSE m \in self.messages : TRUE))]
  IN [ok |-> TRUE,
      out |-> <<Reply(self, msg, ReadOkBody(self.messages))>> \o resend,
      node |-> [self EXCEPT !.id = self.id + 1 + Len(resend)]]

HandleRead(self, msg) ==
  [ok |-> TRUE,
   out |-> <<Reply(self, msg, ReadOkBody(self.messages))>>,
   node |-> [self EXCEPT !.id = self.id + 1]]

\* TopologyNeighbors with a map lacking the node's key read as an empty entry.
TopologyNeighbors_MissingKeyClears(self, topology) ==
  IF self.node_id # None
    THEN (IF self.node_id[1] \in DOMAIN topology THEN topology[self.node_id[1]] ELSE {})
    ELSE self.node_ids

\* TopologyNeighbors that never applies the map.
TopologyNeighbors_Ignored(self, topology) == self.node_ids

\* if let Some(node) = &self.node_id { if let Some(node_ids) = topology.get(node) {..} }
TopologyNeighbors(self, topology) ==
  IF self.node_id # None /\ self.node_id[1] \in DOMAIN topology
    THEN topology[self.node_id[1]]
    ELSE self.node_ids

\* HandleTopology without the increment of the counter.
HandleTopology_NoIncrement(self, msg) ==
  [ok |-> TRUE,
   out |-> <<Reply(self, msg, TopologyOkBody)>>,
   node |-> [self EXCEPT !.node_ids = TopologyNeighbors(self, msg.body.body.topology)]]

\* HandleTopology that starts the per-peer record afresh with the new
\* neighbour set.
HandleTopology_ForgetsSeen(self, msg) ==
  [ok |-> TRUE,
   out |-> <<Reply(self, msg, TopologyOkBody)>>,
   node |-> [self EXCEPT !.node_ids = TopologyNeighbors(self, msg.body.body.topology),
                         !.messages_shared_per_node = EmptyMap,
                         !.id = self.id + 1]]

HandleTopology(self, msg) ==
  [ok |-> TRUE,
   out |-> <<Reply(self, msg, TopologyOkBody)>>,
   node |-> [self EXCEPT !.node_ids = TopologyNeighbors(self, msg.body.body.topology),
                         !.id = self.id + 1]]

\* HandleUnknown that still consumes an id.
HandleUnknown_CountsId(self, msg) == [ok |-> FALSE, out |-> <<>>, node |-> [self EXCEPT !.id = self.id + 1]]

\* _ => Err(anyhow!(..)): no reply, no state change
HandleUnknown(self, msg) == [ok |-> FALSE, out |-> <<>>, node |-> self]

\* RecordSender without the test on the first character of the sender's id.
RecordSender_AnySender(shared, src, message) ==
  IF src # None
    THEN [p \in DOMAIN shared \cup {src[1]} |->
            (IF p \in DOMAIN shared THEN shared[p] ELSE {}) \cup (IF p = src[1] THEN {message} ELSE {})]
    ELSE shared

\* RecordSender that records nothing.
RecordSender_Never(shared, src, message) == shared

\* RecordSender that adds the value to the seen-set of every tracked peer.
RecordSender_AllPeers(shared, src, message) ==
  IF src # None /\ starts_with(src[1], "n")
    THEN [p \in DOMAIN shared \cup {src[1]} |->
            (IF p \in DOMAIN shared THEN shared[p] ELSE {}) \cup {message}]
    ELSE shared

\* lines 105-115: a sender whose id begins with 'n' is recorded as having the value
RecordSender(shared, src, message) ==
  IF src # None /\ starts_with(src[1], "n")
    THEN [p \in DOMAIN shared \cup {src[1]} |->
            (IF p \in DOMAIN shared THEN shared[p] ELSE {}) \cup (IF p = src[1] THEN {message} ELSE {})]
    ELSE shared

\* CatchUpFor without the test against the peer's seen-set.
CatchUpFor_IgnoreSeen(processor, filter_message, node, msgOrder) ==
  LET keep(m) == m # filter_message /\ starts_with(node, "n")
      missing == SelectSeq(msgOrder, keep)
  IN [i \in 1..Len(missing) |->
        Message(processor.node_id, Some(node), Some(processor.id + (i - 1)), None, BroadcastBody(missing[i]))]

\* CatchUpFor marking its envelopes as replies to the envelope numbered before them.
CatchUpFor_InReplyTo(processor, filter_message, node, msgOrder) ==
  LET node_shared_messages == processor.messages_shared_per_node[node]
      keep(m) == m \notin node_shared_messages /\ m # filter_message /\ starts_with(node, "n")
      missing == SelectSeq(msgOrder, keep)
  IN [i \in 1..Len(missing) |->
        Message(processor.node_id, Some(node), Some(processor.id + (i - 1)), Some(processor.id - 1), BroadcastBody(missing[i]))]

\* The catch-up envelopes of one tracked peer: the inner filter/map of
\* broadcast_all_seen_messages.  The inner closure is `move`, so it numbers
\* from its own copy of `counter`, which starts at processor.id for every peer.
CatchUpFor(processor, filter_message, node, msgOrder) ==
  LET node_shared_messages == processor.messages_shared_per_node[node]
      keep(m) == m \notin node_shared_messages /\ m # filter_message /\ starts_with(node, "n")
      missing == SelectSeq(msgOrder, keep)
  IN [i \in 1..Len(missing) |->
        Message(processor.node_id, Some(node), Some(processor.id + (i - 1)), None, BroadcastBody(missing[i]))]

RECURSIVE FlatMapPeers(_, _, _, _)
FlatMapPeers(processor, filter_message, peerOrder, msgOrder) ==
  IF peerOrder = <<>> THEN <<>>
  ELSE CatchUpFor(processor, filter_message, Head(peerOrder), msgOrder)
         \o FlatMapPeers(processor, filter_message, Tail(peerOrder), msgOrder)

\* The sweep going to every neighbour instead of every tracked peer, with
\* every delivered value but the one being processed.
broadcast_all_seen_messages_ToNeighbours(processor, filter_message, peerOrder, msgOrder) ==
  LET dests == CHOOSE s \in IterOrders(processor.node_ids) : TRUE
      keep(m) == m # filter_message
      missing == SelectSeq(msgOrder, keep)
  IN [k \in 1..(Len(dests) * Len(missing)) |->
        Message(processor.node_id, Some(dests[((k - 1) \div Len(missing)) + 1]),
                Some(processor.id + ((k - 1) % Len(missing))), None,
                BroadcastBody(missing[((k - 1) % Len(missing)) + 1]))]

\* peerOrder: iteration order of messages_shared_per_node; msgOrder: of messages
broadcast_all_seen_messages(processor, filter_message, peerOrder, msgOrder) ==
  FlatMapPeers(processor, filter_message, peerOrder, msgOrder)

\* Fanout without the exclusion of the sender.
Fanout_NoExclusion(self, msg, message, nbrOrder) ==
  LET keep(broadcast_dest) == msg.src # None
      dests == SelectSeq(nbrOrder, keep)
  IN [i \in 1..Len(dests) |->
        Message(self.node_id, Some(dests[i]), msg.body.msg_id, None, BroadcastBody(message))]

\* Fanout with the test on the sender inverted (== for !=).
Fanout_InvertedTest(self, msg, message, nbrOrder) ==
  LET keep(broadcast_dest) == msg.src # None /\ msg.src[1] = broadcast_dest
      dests == SelectSeq(nbrOrder, keep)
  IN [i \in 1..Len(dests) |->
        Message(self.node_id, Some(dests[i]), msg.body.msg_id, None, BroadcastBody(message))]

\* Fanout numbering its envelopes from the node's own counter.
Fanout_OwnId(self, msg, message, nbrOrder) ==
  LET keep(broadcast_dest) == msg.src # None /\ msg.src[1] # broadcast_dest
      dests == SelectSeq(nbrOrder, keep)
  IN [i \in 1..Len(dests) |->
        Message(self.node_id, Some(dests[i]), Some(self.id + (i - 1)), None, BroadcastBody(message))]

\* Fanout sending every envelope twice.
Fanout_EachTwice(self, msg, message, nbrOrder) ==
  LET keep(broadcast_dest) == msg.src # None /\ msg.src[1] # broadcast_dest
      dests == SelectSeq(nbrOrder \o nbrOrder, keep)
  IN [i \in 1..Len(dests) |->
        Message(self.node_id, Some(dests[i]), msg.body.msg_id, None, BroadcastBody(message))]

\* lines 127-141: one copy of the inbound body to every neighbour but the sender;
\* nothing at all when the inbound envelope has no src
Fanout(self, msg, message, nbrOrder) ==
  LET keep(broadcast_dest) == msg.src # None /\ msg.src[1] # broadcast_dest
      dests == SelectSeq(nbrOrder, keep)
  IN [i \in 1..Len(dests) |->
        Message(self.node_id, Some(dests[i]), msg.body.msg_id, None, BroadcastBody(message))]

\* Insert that keeps only the value just received.
Insert_Replace(messages, message) == {message}

\* Insert that stores nothing: the value is forwarded but not kept.
Insert_Never(messages, message) == messages

\* HashSet::insert
Insert(messages, message) == messages \cup {message}

\* HandleBroadcast without the novelty test: the value is forwarded every time.
HandleBroadcast_AlwaysFanout(self, msg, nbrOrder, peerOrder, msgOrder) ==
  LET message == msg.body.body.message
      broadcast_ok_reply_msg == Message(msg.dest, msg.src, Some(self.id), msg.body.msg_id, BroadcastOkBody)
      s1 == [self EXCEPT !.id = self.id + 1,
                         !.messages_shared_per_node = RecordSender(self.messages_shared_per_node, msg.src, message)]
      prev_messages_to_broadcast == broadcast_all_seen_messages(s1, message, peerOrder, msgOrder)
      s3 == [s1 EXCEPT !.id = s1.id + Len(prev_messages_to_broadcast),
                       !.messages = s1.messages \cup {message}]
      keep(broadcast_dest) == msg.src # None /\ msg.src[1] # broadcast_dest
      dests == SelectSeq(nbrOrder, keep)
      fanout == [i \in 1..Len(dests) |-> Message(s3.node_id, Some(dests[i]), msg.body.msg_id, None, BroadcastBody(message))]
  IN [ok |-> TRUE,
      out |-> (<<broadcast_ok_reply_msg>> \o fanout) \o prev_messages_to_broadcast,
      node |-> s3]

\* HandleBroadcast that returns the catch-up batch only with a new value.
HandleBroadcast_SweepOnlyIfNovel(self, msg, nbrOrder, peerOrder, msgOrder) ==
  LET message == msg.body.body.message
      broadcast_ok_reply_msg == Reply(self, msg, BroadcastOkBody)
      s1 == [self EXCEPT !.id = self.id + 1,
                         !.messages_shared_per_node = RecordSender(self.messages_shared_per_node, msg.src, message)]
      prev_messages_to_broadcast == broadcast_all_seen_messages(s1, message, peerOrder, msgOrder)
      s2 == [s1 EXCEPT !.id = s1.id + Len(prev_messages_to_broadcast)]
      s3 == [s2 EXCEPT !.messages = Insert(s2.messages, message)]
  IN [ok |-> TRUE,
      out |-> IF message \notin s2.messages
                THEN (<<broadcast_ok_reply_msg>> \o Fanout(s3, msg, message, nbrOrder)) \o prev_messages_to_broadcast
                ELSE <<broadcast_ok_reply_msg>>,
      node |-> s3]

HandleBroadcast(self, msg, nbrOrder, peerOrder, msgOrder) ==
  LET message == msg.body.body.message
      broadcast_ok_reply_msg == Reply(self, msg, BroadcastOkBody)
      s1 == [self EXCEPT !.id = self.id + 1,
                         !.messages_shared_per_node = RecordSender(self.messages_shared_per_node, msg.src, message)]
      prev_messages_to_broadcast == broadcast_all_seen_messages(s1, message, peerOrder, msgOrder)
      s2 == [s1 EXCEPT !.id = s1.id + Len(prev_messages_to_broadcast)]
      s3 == [s2 EXCEPT !.messages = Insert(s2.messages, message)]
  IN [ok |-> TRUE,
      out |-> IF message \notin s2.messages
                THEN (<<broadcast_ok_reply_msg>> \o Fanout(s3, msg, message, nbrOrder)) \o prev_messages_to_broadcast
                ELSE <<broadcast_ok_reply_msg>> \o prev_messages_to_broadcast,
      node |-> s3]

\* impl Processor<BroadcastMessage>: the match on msg.body.body
process(self, msg, nbrOrder, peerOrder, msgOrder) ==
  CASE msg.body.body.type = "init" -> HandleInit(self, msg)
    [] msg.body.body.type = "broadcast" -> HandleBroadcast(self, msg, nbrOrder, peerOrder, msgOrder)
    [] msg.body.body.type = "read" -> HandleRead(self, msg)
    [] msg.body.body.type = "topology" -> HandleTopology(self, msg)
    [] OTHER -> HandleUnknown(self, msg)

\* ---------------------------------------------------------------------------
\* The JSON line of an envelope, as the derived Serialize / Deserialize write
\* and read it.  A JSON value is null, a number, a string, an array or an
\* object.  Option is written as the value or null and a missing key reads as
\* None; a HashSet is written as an array in its iteration order and read
\* back as a set; #[serde(flatten)] puts the payload's keys beside msg_id and
\* in_reply_to; #[serde(tag = "type")] adds the variant's name under "type".
\* ---------------------------------------------------------------------------
JNull == [null |-> TRUE]
JNum(n) == [num |-> n]
JStr(s) == [str |-> s]
JArr(a) == [arr |-> a]
JObj(o) == [obj |-> o]

\* an absent msg_id written as 0
SerOptionI64_NoneAsZero(o) == IF o = None THEN JNum(0) ELSE JNum(o[1])

SerOptionI64(o) == IF o = None THEN JNull ELSE JNum(o[1])

SerOptionString(o) == IF o = None THEN JNull ELSE JStr(o[1])

\* the iteration orders serialisation may meet in the sets of a payload
SetOrders(body) ==
  CASE body.type = "init" -> IterOrders(body.node_ids)
    [] body.type = "read_ok" -> IterOrders(body.messages)
    [] body.type = "topology" ->
         {f \in [DOMAIN body.topology -> UNION {IterOrders(body.topology[k]) : k \in DOMAIN body.topology}] :
            \A k \in DOMAIN body.topology : f[k] \in IterOrders(body.topology[k])}
    [] OTHER -> {<<>>}

\* the keys of a payload: the tag and the fields of the variant
SerPayload(body, order) ==
  CASE body.type = "init" ->
         [type |-> JStr(body.type), node_id |-> JStr(body.node_id),
          node_ids |-> JArr([i \in 1..Len(order) |-> JStr(order[i])])]
    [] body.type = "broadcast" -> [type |-> JStr(body.type), message |-> JNum(body.message)]
    [] body.type = "read_ok" ->
         [type |-> JStr(body.type), messages |-> JArr([i \in 1..Len(order) |-> JNum(order[i])])]
    [] body.type = "topology" ->
         [type |-> JStr(body.type),
          topology |-> JObj([k \in DOMAIN body.topology |->
                              JArr([i \in 1..Len(order[k]) |-> JStr(order[k][i])])])]
    [] OTHER -> [type |-> JStr(body.type)]

\* serde_json::to_string(&msg)
to_string(msg, order) ==
  JObj([src |-> SerOptionString(msg.src),
        dest |-> SerOptionString(msg.dest),
        body |-> JObj([msg_id |-> SerOptionI64(msg.body.msg_id),
                       in_reply_to |-> SerOptionI64(msg.body.in_reply_to)]
                        @@ SerPayload(msg.body.body, order))])

DeOptionI64(o, k) == IF k \notin DOMAIN o \/ "null" \in DOMAIN o[k] THEN None ELSE Some(o[k].num)

DeOptionString(o, k) == IF k \notin DOMAIN o \/ "null" \in DOMAIN o[k] THEN None ELSE Some(o[k].str)

DeSetI64(j) == {j.arr[i].num : i \in 1..Len(j.arr)}

DeSetString(j) == {j.arr[i].str : i \in 1..Len(j.arr)}

\* the variant named by the tag, built from its keys; other keys are ignored
DePayload(o) ==
  CASE o.type.str = "init" -> InitBody(o.node_id.str, DeSetString(o.node_ids))
    [] o.type.str = "init_ok" -> InitOkBody
    [] o.type.str = "broadcast" -> BroadcastBody(o.message.num)
    [] o.type.str = "broadcast_ok" -> BroadcastOkBody
    [] o.type.str = "read" -> ReadBody
    [] o.type.str = "read_ok" -> ReadOkBody(DeSetI64(o.messages))
    [] o.type.str = "topology" ->
         TopologyBody([k \in DOMAIN o.topology.obj |-> DeSetString(o.topology.obj[k])])
    [] o.type.str = "topology_ok" -> TopologyOkBody

\* serde_json::from_str::<Message<BroadcastMessage>>(&line)
from_str(j) ==
  Message(DeOptionString(j.obj, "src"),
          DeOptionString(j.obj, "dest"),
          DeOptionI64(j.obj.body.obj, "msg_id"),
          DeOptionI64(j.obj.body.obj, "in_reply_to"),
          DePayload(j.obj.body.obj))

\* ------------------------------------------------ one node fed by a transport
VARIABLES id, messages, messages_shared_per_node, node_id, node_ids, inmsg, pre, out, ok, received, sentIds, single
\* ------------------------------------------- several nodes joined by a network
VARIABLES nodes, network, clientSent, duplicates

\* --------------------------------------------- the transport loop of one node
\* running: the for_each of run() is still iterating over the input stream;
\* invalid: the last item the stream yielded was an error, not an envelope
VARIABLES running, invalid

nodeVars == <<id, messages, messages_shared_per_node, node_id, node_ids>>
obsVars == <<inmsg, pre, out, ok, received, sentIds, single>>
netVars == <<nodes, network, clientSent, duplicates>>
runVars == <<running, invalid>>
vars == <<nodeVars, obsVars, netVars, runVars>>

Self == BroadcastMaelstromNode(id, node_id, messages, messages_shared_per_node, node_ids)

\* inbound envelopes
\* senders of a broadcast: nobody, a peer, another peer, a client
Srcs == {None, Some(n2), Some(n3), Some(c1)}
\* senders of the client requests (init, read, topology)
ClientSrcs == {None, Some(c1)}
\* senders of a stray reply: a peer or a client
ReplySrcs == {Some(n2), Some(c1)}
Dests == {None, Some(n1)}
InitNodeIdLists == {{n1, n2, n3}, {n1, n2}}

\* the node ids an Init may carry when the sender is not the harness, which
\* always sends the node's own
InitNodeIds == {n1, n2}
TopologyMaps == {[p \in {n1} |-> {n2, n3}], [p \in {n1, n2} |-> {n1, n2}], [p \in {n2, n3} |-> {n1}]}
ReplyBodies == {InitOkBody, BroadcastOkBody, ReadOkBody({1}), TopologyOkBody}

Inbound(srcs, body) == {Message(s, d, i, None, body) : s \in srcs, d \in Dests, i \in InMsgIds}

NodeInit ==
  /\ id = DefaultNode.id
  /\ messages = DefaultNode.messages
  /\ messages_shared_per_node = DefaultNode.messages_shared_per_node
  /\ node_id = DefaultNode.node_id
  /\ node_ids = DefaultNode.node_ids
  /\ inmsg = None
  /\ pre = None
  /\ out = <<>>
  /\ ok = TRUE
  /\ received = {}
  /\ sentIds = <<>>
  /\ single = TRUE
  /\ running = TRUE
  /\ invalid = FALSE

NetInit ==
  /\ nodes = [n \in NodeNames |-> DefaultNode]
  /\ network = EmptyBag
  /\ clientSent = 0
  /\ duplicates = 0

Init == NodeInit /\ NetInit

\* The effect of one call of process(msg) with result r on the node and on
\* what the transport has seen of it.
Step(msg, r) ==
  /\ running
  /\ id' = r.node.id
  /\ messages' = r.node.messages
  /\ messages_shared_per_node' = r.node.messages_shared_per_node
  /\ node_id' = r.node.node_id
  /\ node_ids' = r.node.node_ids
  /\ inmsg' = Some(msg)
  /\ pre' = Some(Self)
  /\ out' = r.out
  /\ ok' = r.ok
  /\ received' = IF msg.body.body.type = "broadcast" THEN received \cup {msg.body.body.message} ELSE received
  /\ sentIds' = sentIds \o [i \in 1..Len(r.out) |-> r.out[i].body.msg_id]
  /\ single' = (single /\ Len(r.out) = 1)
  /\ running' = running
  /\ invalid' = FALSE
  /\ UNCHANGED netVars

ProcessInitAs(ids) ==
  /\ id < MaxId
  /\ \E i \in ids : \E l \in InitNodeIdLists : \E msg \in Inbound(ClientSrcs, InitBody(i, l)) :
       Step(msg, HandleInit(Self, msg))

ProcessInit == ProcessInitAs({n1})

ProcessBroadcast ==
  /\ id < MaxId
  /\ \E v \in Values : \E msg \in Inbound(Srcs, BroadcastBody(v)) :
       \E nbrOrder \in IterOrders(node_ids) :
         \E peerOrder \in IterOrders(DOMAIN RecordSender(messages_shared_per_node, msg.src, v)) :
           \E msgOrder \in IterOrders(messages) :
             Step(msg, HandleBroadcast(Self, msg, nbrOrder, peerOrder, msgOrder))

ProcessRead ==
  /\ id < MaxId
  /\ \E msg \in Inbound(ClientSrcs, ReadBody) : Step(msg, HandleRead(Self, msg))

ProcessTopology ==
  /\ id < MaxId
  /\ \E t \in TopologyMaps : \E msg \in Inbound(ClientSrcs, TopologyBody(t)) :
       Step(msg, HandleTopology(Self, msg))

ProcessUnknown ==
  /\ id < MaxId
  /\ \E b \in ReplyBodies : \E msg \in Inbound(ReplySrcs, b) : Step(msg, HandleUnknown(Self, msg))

Next == ProcessInit \/ ProcessBroadcast \/ ProcessRead \/ ProcessTopology \/ ProcessUnknown

Spec == Init /\ [][Next]_vars

\* the same node fed by a sender that is not bound to the harness's
\* handshake: an Init may name any node id, and may come again
ProcessAnyInit == ProcessInitAs(InitNodeIds)

NextAnyInit == ProcessAnyInit \/ ProcessBroadcast \/ ProcessRead \/ ProcessTopology \/ ProcessUnknown

SpecAnyInit == Init /\ [][NextAnyInit]_vars

\* The input stream yields something that does not deserialize into an
\* envelope: text that is not JSON, or JSON that is not a Message.  The Err
\* arm of run() prints a line "Unknown message : ..." and calls nothing.
\* serde_json's StreamDeserializer over a reader is fused: once next() has
\* returned an error it returns None, so the for_each ends there and run()
\* returns Ok(()).
ReadInvalid ==
  /\ running
  /\ invalid' = TRUE
  /\ running' = FALSE
  /\ inmsg' = None
  /\ pre' = Some(Self)
  /\ out' = <<>>
  /\ UNCHANGED <<nodeVars, ok, received, sentIds, single, netVars>>

\* the node fed by a stream that may hold anything
NextRun == Next \/ ReadInvalid

SpecRun == Init /\ [][NextRun]_vars

\* ---------------------------------------------------------------------------
\* Several nodes, each running the same process(), joined by a network that
\* holds the envelopes in flight.  A client (c1) performs the handshake and
\* sends the workload, as the Maelstrom harness does: init first, then an
\* optional topology, then broadcasts.
\* ---------------------------------------------------------------------------

\* a connected topology: the line n1 - n2 - n3
LineTopology == [n \in NodeNames |-> IF n = n2 THEN {n1, n3} ELSE {n2}]

\* the harness starts the workload once every node has answered the handshake
\* and, when it sends a topology at all, once every node has answered that
TopologySettled ==
  \/ \A n \in NodeNames : nodes[n].node_ids = NodeNames \ {n}
  \/ \A n \in NodeNames : nodes[n].node_ids = LineTopology[n]

\* the modelled range of the id counters is used up: the network model stops
IdsExhausted == nodes[n1].id + nodes[n2].id + nodes[n3].id >= MaxNetIds

AllInitialised == \A n \in NodeNames : nodes[n].node_id = Some(n)

\* The envelopes of a handler's output that travel on: the broadcast requests
\* addressed to a node.  A reply leaves the model here: one addressed to the
\* client is the client's, and one addressed to a node is answered there by
\* the error arm of process(), which changes nothing and emits nothing.
ToNodes(envelopes) == SelectSeq(envelopes, LAMBDA e : e.dest # None /\ e.dest[1] \in NodeNames /\ e.body.body.type = "broadcast")

RECURSIVE SeqToBag(_)
SeqToBag(envelopes) == IF envelopes = <<>> THEN EmptyBag ELSE SetToBag({Head(envelopes)}) (+) SeqToBag(Tail(envelopes))

\* node n processes msg; what it emits to other nodes goes in flight
Handle(n, msg, rest, r) ==
  /\ nodes' = [nodes EXCEPT ![n] = r.node]
  /\ network' = rest (+) SeqToBag(ToNodes(r.out))

\* the iteration orders one call of process(msg) may meet: of the neighbour
\* set, of the keys of the per-peer map (after the sender is recorded) and of
\* the delivered set
Orders(self, msg) ==
  IterOrders(self.node_ids)
    \X IterOrders(IF msg.body.body.type = "broadcast"
                    THEN DOMAIN RecordSender(self.messages_shared_per_node, msg.src, msg.body.body.message)
                    ELSE {})
    \X IterOrders(self.messages)

\* the handshake: the client's init, carrying the full node list
NetHandshake(n) ==
  /\ nodes[n].node_id = None
  /\ LET msg == Message(Some(c1), Some(n), Some(1), None, InitBody(n, NodeNames))
     IN Handle(n, msg, network, HandleInit(nodes[n], msg))
  /\ UNCHANGED <<clientSent, duplicates, nodeVars, obsVars, runVars>>

\* the client's topology message, the same connected topology for every node,
\* sent after the handshake and before the workload
NetTopology(n) ==
  /\ nodes[n].node_id # None
  /\ nodes[n].node_ids # LineTopology[n]
  /\ clientSent = 0
  /\ LET msg == Message(Some(c1), Some(n), Some(2), None, TopologyBody(LineTopology))
     IN Handle(n, msg, network, HandleTopology(nodes[n], msg))
  /\ UNCHANGED <<clientSent, duplicates, nodeVars, obsVars, runVars>>

\* the client's Broadcast(v) arrives at node n; the client sends at most max
ClientSends(n, v, max) ==
  /\ AllInitialised
  /\ TopologySettled
  /\ clientSent < max
  /\ ~IdsExhausted
  /\ clientSent' = clientSent + 1
  /\ LET msg == Message(Some(c1), Some(n), Some(clientSent + 3), None, BroadcastBody(v))
     IN \E o \in Orders(nodes[n], msg) :
          Handle(n, msg, network, HandleBroadcast(nodes[n], msg, o[1], o[2], o[3]))
  /\ UNCHANGED <<duplicates, nodeVars, obsVars, runVars>>

ClientBroadcast(n, v) == ClientSends(n, v, MaxClientBroadcasts)

\* the network delivers one envelope in flight to its destination
Receive(msg) ==
  LET n == msg.dest[1]
  IN /\ BagIn(msg, network)
     /\ \E o \in Orders(nodes[n], msg) :
          Handle(n, msg, network (-) SetToBag({msg}), process(nodes[n], msg, o[1], o[2], o[3]))
     /\ UNCHANGED <<clientSent, duplicates, nodeVars, obsVars, runVars>>

Deliver(msg) == ~IdsExhausted /\ Receive(msg)

DeliverSome == \E msg \in BagToSet(network) : Deliver(msg)

NetNext ==
  \/ \E n \in NodeNames : NetHandshake(n)
  \/ \E n \in NodeNames : NetTopology(n)
  \/ \E n \in NodeNames : \E v \in Values : ClientBroadcast(n, v)
  \/ DeliverSome

\* a reliable network: an envelope in flight is eventually delivered
SpecNet == Init /\ [][NetNext]_vars /\ WF_vars(DeliverSome)

\* ---------------------------------------------------------------------------
\* The same nodes over a network that may also lose an envelope in flight or
\* deliver it more than once.  Delay and reordering are already there: the
\* network is a bag and nothing forces a delivery.
\* ---------------------------------------------------------------------------

\* the range of the id counters modelled over the lossy network
LossyIdsExhausted == nodes[n1].id + nodes[n2].id + nodes[n3].id >= MaxLossyIds

\* The client's workload over the lossy network, on the full mesh of the
\* handshake.  process() never inspects a value and treats all node names
\* alike, so the first Broadcast goes to n1 and the k-th carries one of the
\* values 1..k; every other workload is one of these with values and nodes
\* renamed.
LossyClientBroadcast(n, v, max) ==
  /\ ~LossyIdsExhausted
  /\ v <= clientSent + 1
  /\ clientSent = 0 => n = n1
  /\ ClientSends(n, v, max)

LossyDeliver == ~LossyIdsExhausted /\ DeliverSome

\* the network loses one envelope in flight
Drop(msg) ==
  /\ BagIn(msg, network)
  /\ network' = network (-) SetToBag({msg})
  /\ UNCHANGED <<nodes, clientSent, duplicates, nodeVars, obsVars, runVars>>

\* the network duplicates one envelope in flight
Duplicate(msg) ==
  /\ BagIn(msg, network)
  /\ duplicates < MaxDuplicates
  /\ duplicates' = duplicates + 1
  /\ network' = network (+) SetToBag({msg})
  /\ UNCHANGED <<nodes, clientSent, nodeVars, obsVars, runVars>>

DropSome == \E msg \in BagToSet(network) : Drop(msg)

DuplicateSome == \E msg \in BagToSet(network) : Duplicate(msg)

LossyNext(max) ==
  \/ \E n \in NodeNames : NetHandshake(n)
  \/ \E n \in NodeNames : \E v \in Values : LossyClientBroadcast(n, v, max)
  \/ LossyDeliver
  \/ DropSome
  \/ DuplicateSome

\* no fairness: the network may hold an envelope back for ever
SpecLossy == Init /\ [][LossyNext(MaxClientBroadcasts)]_vars

\* the same network under a longer workload
SpecLossyTraffic == Init /\ [][LossyNext(MaxLossyBroadcasts)]_vars

\* ---------------------------------------------------------------------------
\* The reliable network under a workload of several values, on the mesh of the
\* handshake or on the line topology.
\* ---------------------------------------------------------------------------

\* the range of the id counters modelled under this workload
GossipIdsExhausted == nodes[n1].id + nodes[n2].id + nodes[n3].id >= MaxGossipIds

\* process() never inspects a value, so the k-th Broadcast carries one of the
\* values 1..k; every other workload is one of these with the values renamed
GossipClientBroadcast(n, v) ==
  /\ v <= clientSent + 1
  /\ ClientSends(n, v, MaxGossipBroadcasts)

GossipDeliver(msg) == ~GossipIdsExhausted /\ Receive(msg)

GossipDeliverSome == \E msg \in BagToSet(network) : GossipDeliver(msg)

GossipNext ==
  \/ \E n \in NodeNames : NetHandshake(n)
  \/ \E n \in NodeNames : NetTopology(n)
  \/ \E n \in NodeNames : \E v \in Values : GossipClientBroadcast(n, v)
  \/ GossipDeliverSome

\* a reliable network: an envelope in flight is eventually delivered
SpecGossip == Init /\ [][GossipNext]_vars /\ WF_vars(GossipDeliverSome)

Called(type) == inmsg # None /\ inmsg[1].body.body.type = type
In == inmsg[1]
Pre == pre[1]
InValue == In.body.body.message

\* how many envelopes of out are a broadcast of value w addressed to d
Broadcasts(d, w) ==
  Cardinality({i \in 1..Len(out) : /\ out[i].body.body.type = "broadcast"
                                   /\ out[i].body.body.message = w
                                   /\ out[i].dest = Some(d)})

\* how many envelopes of out are a broadcast of value w, whatever the address
BroadcastsOf(w) ==
  Cardinality({i \in 1..Len(out) : out[i].body.body.type = "broadcast" /\ out[i].body.body.message = w})

\* C2. The delivered set is exactly the set of values carried by the
\* Broadcast messages processed so far.
C2_DeliveredIsReceived == messages = received

\* both values delivered, the latest call a Broadcast of a value seen before
C2_Witness == Called("broadcast") /\ InValue \in Pre.messages /\ Cardinality(messages) >= 2

\* C3. A Broadcast(v) whose value is already delivered leaves the delivered
\* set as it was and returns no broadcast envelope carrying v.
C3_NoSecondFanout ==
  (Called("broadcast") /\ InValue \in Pre.messages)
    => (messages = Pre.messages /\ BroadcastsOf(InValue) = 0)

\* a repeated value from a known sender, at a node with a neighbour that a
\* first occurrence would have been forwarded to
C3_Witness ==
  /\ Called("broadcast") /\ InValue \in Pre.messages
  /\ In.src # None
  /\ \E d \in Pre.node_ids : Some(d) # In.src

\* C4. No envelope forwarding the value of a Broadcast is addressed to the
\* sender of that Broadcast.
C4_FanoutExcludesSender ==
  (Called("broadcast") /\ In.src # None) => Broadcasts(In.src[1], InValue) = 0

\* a new value from a neighbour, forwarded to another neighbour
C4_Witness ==
  /\ Called("broadcast") /\ In.src # None
  /\ In.src[1] \in Pre.node_ids
  /\ InValue \notin Pre.messages
  /\ BroadcastsOf(InValue) >= 1

\* C5. A new value is forwarded exactly once to every neighbour other than
\* the sender and to nobody else, whoever sent it and also when the inbound
\* envelope has no source.
C5_FanoutToEveryOtherNeighbour ==
  (Called("broadcast") /\ InValue \notin Pre.messages)
    => /\ \A d \in Pre.node_ids : Broadcasts(d, InValue) = (IF Some(d) = In.src THEN 0 ELSE 1)
       /\ BroadcastsOf(InValue) = Cardinality({d \in Pre.node_ids : Some(d) # In.src})

\* C6. For every tracked peer P (after the sender is recorded) the output
\* holds exactly one Broadcast(w) to P for each w delivered before this call
\* that is neither in seen[P] nor the value being processed, and no other
\* broadcast of a value other than the one being processed.
C6_CatchUp ==
  Called("broadcast") =>
    \A w \in Values \ {InValue} :
      /\ \A p \in Names :
           Broadcasts(p, w) = (IF p \in DOMAIN messages_shared_per_node /\ w \in Pre.messages \ messages_shared_per_node[p] THEN 1 ELSE 0)
      /\ BroadcastsOf(w) = Cardinality({p \in DOMAIN messages_shared_per_node : w \in Pre.messages \ messages_shared_per_node[p]})

\* a tracked peer with a non-empty seen-set is sent a value it has not shown
C6_Witness ==
  /\ Called("broadcast")
  /\ \E p \in DOMAIN messages_shared_per_node : \E w \in Pre.messages :
       /\ p \in DOMAIN Pre.messages_shared_per_node
       /\ w \notin messages_shared_per_node[p]
       /\ w # InValue
       /\ Broadcasts(p, w) = 1

\* C7. The msg_ids of all envelopes returned so far are the consecutive
\* integers from the counter's initial value, in emission order.
C7_ConsecutiveIds == \A k \in 1..Len(sentIds) : sentIds[k] = Some(InitialId + (k - 1))

\* C8. No two envelopes returned by the node carry the same msg_id.
C8_UniqueIds == \A i, j \in 1..Len(sentIds) : i # j => sentIds[i] # sentIds[j]

\* C9. Every processed Broadcast returns exactly one broadcast_ok, from the
\* inbound dest to the inbound src, in reply to the inbound msg_id.
C9_OneAck ==
  Called("broadcast") =>
    /\ Cardinality({i \in 1..Len(out) : out[i].body.body.type = "broadcast_ok"}) = 1
    /\ \A i \in 1..Len(out) :
         out[i].body.body.type = "broadcast_ok"
           => /\ out[i].src = In.dest
              /\ out[i].dest = In.src
              /\ out[i].body.in_reply_to = In.body.msg_id

\* a repeated value arrives at a node that was never initialised
C9_Witness ==
  /\ Called("broadcast") /\ InValue \in Pre.messages
  /\ Pre.node_id = None
  /\ In.dest # None /\ In.body.msg_id # None

\* C10. Topology(map) returns one topology_ok; the neighbour set becomes
\* map[own_id] when own_id is set and a key of map, and is left as it was
\* otherwise; own_id is never changed.
C10_Topology ==
  Called("topology") =>
    LET map == In.body.body.topology
    IN /\ Len(out) = 1
       /\ out[1].body.body = TopologyOkBody
       /\ out[1].body.in_reply_to = In.body.msg_id
       /\ node_id = Pre.node_id
       /\ (Pre.node_id # None /\ Pre.node_id[1] \in DOMAIN map) => node_ids = map[Pre.node_id[1]]
       /\ (Pre.node_id = None \/ Pre.node_id[1] \notin DOMAIN map) => node_ids = Pre.node_ids

\* an initialised node is given a different neighbour set by a map with its key
C10_Witness ==
  /\ Called("topology")
  /\ Pre.node_id # None /\ Pre.node_id[1] \in DOMAIN In.body.body.topology
  /\ node_ids # Pre.node_ids

\* an initialised node is handed a map without its key
C10_WitnessUnmapped ==
  /\ Called("topology")
  /\ Pre.node_id # None /\ Pre.node_id[1] \notin DOMAIN In.body.body.topology
  /\ Pre.node_ids # {}

\* C11. Init(node_id, node_ids) sets the own id to node_id and the neighbour
\* set to node_ids without node_id, and returns exactly one InitOk from the
\* inbound dest to the inbound src whose in_reply_to is the inbound msg_id.
C11_Init ==
  Called("init") =>
    /\ node_id = Some(In.body.body.node_id)
    /\ node_ids = In.body.body.node_ids \ {In.body.body.node_id}
    /\ ok /\ Len(out) = 1
    /\ out[1].body.body = InitOkBody
    /\ out[1].src = In.dest /\ out[1].dest = In.src
    /\ out[1].body.in_reply_to = In.body.msg_id

\* an Init whose list holds the node's own id, with a source and a msg_id
C11_Witness ==
  /\ Called("init")
  /\ In.body.body.node_id \in In.body.body.node_ids
  /\ In.src # None /\ In.dest # None /\ In.body.msg_id # None

\* C12. Read returns exactly one ReadOk whose messages field is the delivered
\* set at that moment, that is every value of an earlier Broadcast, and whose
\* in_reply_to is the inbound msg_id; the delivered set is left as it was.
C12_Read ==
  Called("read") =>
    /\ ok /\ Len(out) = 1
    /\ out[1].body.body = ReadOkBody(Pre.messages)
    /\ out[1].body.body.messages = received
    /\ out[1].body.in_reply_to = In.body.msg_id
    /\ out[1].src = In.dest /\ out[1].dest = In.src
    /\ messages = Pre.messages

\* a Read with a msg_id at a node that has delivered something
C12_Witness ==
  /\ Called("read")
  /\ Pre.messages # {}
  /\ In.body.msg_id # None

C14_DeliveredOnlyGrows == inmsg # None => Pre.messages \subseteq messages

\* a second Init processed by a node that has delivered a value
C14_Witness ==
  /\ Called("init")
  /\ Pre.node_id # None
  /\ Pre.messages # {} /\ messages = Pre.messages

\* C15. Once the node has an id, that id is not in its neighbour set,
\* whatever Init and Topology messages were processed.
C15_NeighboursExcludeSelf == node_id # None => node_id[1] \notin node_ids

\* C16. Every key of the per-peer seen map begins with 'n' and entered the
\* map as the source of a processed Broadcast; a Broadcast whose source is
\* absent or does not begin with 'n' leaves the map as it was.
C16_SeenMapKeys ==
  /\ \A p \in DOMAIN messages_shared_per_node : starts_with(p, "n")
  /\ inmsg # None =>
       \A p \in DOMAIN messages_shared_per_node \ DOMAIN Pre.messages_shared_per_node :
         Called("broadcast") /\ In.src = Some(p)
  /\ (Called("broadcast") /\ (In.src = None \/ ~starts_with(In.src[1], "n")))
       => messages_shared_per_node = Pre.messages_shared_per_node

\* a Broadcast from a client at a node that already tracks a peer
C16_Witness ==
  /\ Called("broadcast") /\ In.src = Some(c1)
  /\ DOMAIN Pre.messages_shared_per_node # {}
  /\ InValue \notin Pre.messages

\* a Broadcast from a peer that was not tracked before
C16_WitnessNewKey ==
  /\ Called("broadcast") /\ In.src = Some(n2)
  /\ n2 \notin DOMAIN Pre.messages_shared_per_node
  /\ n2 \in DOMAIN messages_shared_per_node

\* the node of the scenario after its Init, and after its Topology
C19_AfterInit == BroadcastMaelstromNode(InitialId + 1, Some(n1), {}, EmptyMap, {n2})

C19_AfterTopology == BroadcastMaelstromNode(InitialId + 2, Some(n1), {}, EmptyMap, {n2, n3})

\* C19. On a fresh node: Init{n1, [n1, n2]} leaves the neighbour set {n2};
\* then Topology{n1: [n2, n3]} makes it {n2, n3}; then a Broadcast of a value
\* from n2 returns exactly [broadcast_ok to n2, broadcast of the value to n3]
\* and the delivered set is that one value.
C19_Scenario ==
  /\ (Called("init") /\ Pre = DefaultNode /\ In.body.body = InitBody(n1, {n1, n2}))
       => Self = C19_AfterInit
  /\ (Called("topology") /\ Pre = C19_AfterInit /\ In.body.body = TopologyBody([p \in {n1} |-> {n2, n3}]))
       => Self = C19_AfterTopology
  /\ (Called("broadcast") /\ Pre = C19_AfterTopology /\ In.src = Some(n2))
       => /\ Len(out) = 2
          /\ out[1].body.body = BroadcastOkBody /\ out[1].dest = Some(n2)
          /\ out[2].body.body = BroadcastBody(InValue) /\ out[2].dest = Some(n3)
          /\ messages = {InValue}

\* the third step of the scenario has been taken
C19_Witness ==
  /\ Called("broadcast") /\ Pre = C19_AfterTopology /\ In.src = Some(n2)
  /\ received = {InValue}

\* C20. While every processed message has returned exactly one envelope, the
\* k-th envelope returned carries msg_id = initial counter + k - 1, and the
\* latest one carries the msg_id of the latest inbound envelope as in_reply_to.
C20_SingleReplyIds ==
  single =>
    /\ \A k \in 1..Len(sentIds) : sentIds[k] = Some(InitialId + (k - 1))
    /\ inmsg # None => /\ out[1].body.msg_id = Some(InitialId + (Len(sentIds) - 1))
                       /\ out[1].body.in_reply_to = In.body.msg_id

\* three single replies, the last one the ack of a repeated Broadcast
C20_Witness ==
  /\ single /\ Len(sentIds) = 3
  /\ Called("broadcast") /\ InValue \in Pre.messages
  /\ In.body.msg_id # None

\* ---------------------------------------------------------------------------
\* Properties of several nodes over the lossy network.
\* ---------------------------------------------------------------------------

\* C17. Whatever the network delays, reorders, duplicates or loses: for every
\* node A and every peer P that A tracks, the seen-set A holds for P is a
\* subset of the delivered set of P.
C17_SeenWithinDelivered ==
  \A a \in NodeNames : \A p \in DOMAIN nodes[a].messages_shared_per_node :
    p \in NodeNames /\ nodes[a].messages_shared_per_node[p] \subseteq nodes[p].messages

\* a node has recorded a value for a peer, an envelope has been duplicated,
\* nothing is in flight any more and a loss has left some node without a
\* value that another node holds
C17_Witness ==
  /\ \E a \in NodeNames : \E p \in DOMAIN nodes[a].messages_shared_per_node :
       nodes[a].messages_shared_per_node[p] # {}
  /\ duplicates > 0
  /\ network = EmptyBag
  /\ \E a, b \in NodeNames : nodes[a].messages # nodes[b].messages

\* the client's Broadcast of a value to a node, as in the recurring workload
Reminder(n, v) == Message(Some(c1), Some(n), None, None, BroadcastBody(v))

\* Every node holds a value, and a Broadcast to a node of a value it holds
\* makes the node send nothing to any peer.  Such a Broadcast changes only
\* the node's id counter, so with nothing in flight this state of affairs
\* lasts however long that traffic keeps arriving at every node.
TrafficIsSilent ==
  \A n \in NodeNames :
    /\ nodes[n].messages # {}
    /\ \A v \in nodes[n].messages : \A o \in Orders(nodes[n], Reminder(n, v)) :
         ToNodes(HandleBroadcast(nodes[n], Reminder(n, v), o[1], o[2], o[3]).out) = <<>>

\* C18. Gossip envelopes may be lost, and Broadcast traffic keeps arriving at
\* every node: every value delivered at some node is eventually delivered
\* at every other node, the sweep recovering every lost fanout.  Hence where
\* nothing is in flight and the arriving traffic is silent, no node can still
\* lack a value that another node holds.
C18_SweepRecoversLoss ==
  (AllInitialised /\ network = EmptyBag /\ TrafficIsSilent)
    => \A a, b \in NodeNames : nodes[a].messages = nodes[b].messages

\* ---------------------------------------------------------------------------
\* The envelopes of one output, one by one.
\* ---------------------------------------------------------------------------

\* the envelopes of out that forward the value of the Broadcast just processed
IsFanout(e) == e.body.body = BroadcastBody(InValue)

\* the broadcast envelopes of out that carry another value
IsCatchUp(e) == e.body.body.type = "broadcast" /\ e.body.body # BroadcastBody(InValue)

\* C21. Every fanout envelope of a Broadcast has the node's own id as src, a
\* neighbour as dest, and the inbound body: the msg_id of the inbound
\* envelope, no in_reply_to and the same value.
C21_FanoutBody ==
  Called("broadcast") =>
    \A i \in 1..Len(out) : IsFanout(out[i]) =>
      /\ node_id # None /\ out[i].src = node_id
      /\ out[i].dest # None /\ out[i].dest[1] \in Pre.node_ids
      /\ out[i].body.msg_id = In.body.msg_id
      /\ out[i].body.in_reply_to = None
      /\ out[i].body = In.body

\* a Broadcast numbered by its sender is forwarded by a node whose counter
\* stands elsewhere
C21_Witness ==
  /\ Called("broadcast") /\ In.body.msg_id # None
  /\ Some(Pre.id) # In.body.msg_id
  /\ \E i \in 1..Len(out) : IsFanout(out[i])

\* C22. In every output, each reply envelope (init_ok, broadcast_ok, read_ok,
\* topology_ok) has the inbound msg_id as in_reply_to, and each broadcast
\* envelope, fanout or catch-up, has none.
C22_InReplyTo ==
  inmsg # None =>
    \A i \in 1..Len(out) :
      /\ out[i].body.body.type \in {"init_ok", "broadcast_ok", "read_ok", "topology_ok", "broadcast"}
      /\ out[i].body.body.type # "broadcast" => out[i].body.in_reply_to = In.body.msg_id
      /\ out[i].body.body.type = "broadcast" => out[i].body.in_reply_to = None

\* an acknowledgement, a fanout envelope and a catch-up envelope in one
\* output, for an inbound envelope that has a msg_id
C22_Witness ==
  /\ Called("broadcast") /\ In.body.msg_id # None
  /\ \E i, j \in 1..Len(out) : IsFanout(out[i]) /\ IsCatchUp(out[j])

\* C23. Every envelope, of every payload variant, is equal to what decoding
\* its JSON line yields, whatever order its sets were written in.  Checked
\* on every inbound envelope and on every envelope a handler returns.
C23_RoundTrip ==
  /\ inmsg # None =>
       \A order \in SetOrders(In.body.body) : from_str(to_string(In, order)) = In
  /\ \A i \in 1..Len(out) :
       \A order \in SetOrders(out[i].body.body) : from_str(to_string(out[i], order)) = out[i]

\* a read without src or msg_id answered with a read_ok of two values
C23_Witness ==
  /\ Called("read")
  /\ In.src = None /\ In.body.msg_id = None
  /\ Len(out) = 1 /\ Cardinality(out[1].body.body.messages) = 2

\* a topology of two keys and an init are among the inbound envelopes
C23_WitnessTopology ==
  /\ Called("topology")
  /\ Cardinality(DOMAIN In.body.body.topology) = 2
  /\ Pre.node_id # None

\* C24. The output of the Broadcast handler is in this order: the
\* acknowledgement first, then every catch-up envelope, then the fanout
\* envelopes.
C24_OutputOrder ==
  Called("broadcast") =>
    /\ Len(out) >= 1 /\ out[1].body.body = BroadcastOkBody
    /\ \A i, j \in 1..Len(out) : (IsCatchUp(out[i]) /\ IsFanout(out[j])) => i < j

\* C25. After a Broadcast(v) from a sender P whose id begins with 'n', v is
\* in seen[P], whether v was new to the node or not and whether P is a
\* neighbour or not.
C25_SenderRecorded ==
  (Called("broadcast") /\ In.src # None /\ starts_with(In.src[1], "n"))
    => /\ In.src[1] \in DOMAIN messages_shared_per_node
       /\ InValue \in messages_shared_per_node[In.src[1]]

\* a value the node already holds arrives from a peer that is not a
\* neighbour and was not tracked
C25_Witness ==
  /\ Called("broadcast") /\ In.src = Some(n3)
  /\ InValue \in Pre.messages
  /\ Pre.node_ids # {} /\ n3 \notin Pre.node_ids
  /\ n3 \notin DOMAIN Pre.messages_shared_per_node

\* the pairs (tracked peer, value) the sweep of this call has to send
Missing == {pw \in (DOMAIN messages_shared_per_node) \X Pre.messages :
              pw[2] \notin messages_shared_per_node[pw[1]] /\ pw[2] # InValue}

\* C26. When the value of a Broadcast is already delivered, the output is
\* the acknowledgement followed by the catch-up batch and nothing else: one
\* envelope for every tracked peer and every delivered value it has not
\* shown, as for a new value, and no envelope carrying the value itself.
C26_RepeatedValue ==
  (Called("broadcast") /\ InValue \in Pre.messages)
    => /\ Len(out) = 1 + Cardinality(Missing)
       /\ out[1].body.body = BroadcastOkBody
       /\ \A i \in 2..Len(out) :
            /\ IsCatchUp(out[i])
            /\ out[i].dest # None /\ <<out[i].dest[1], out[i].body.body.message>> \in Missing
       /\ \A pw \in Missing : Broadcasts(pw[1], pw[2]) = 1
       /\ BroadcastsOf(InValue) = 0

\* a repeated value whose call returns a catch-up envelope
C26_Witness ==
  /\ Called("broadcast") /\ InValue \in Pre.messages
  /\ Len(out) >= 2

\* C27. Within one output of the Broadcast handler no two broadcast
\* envelopes have the same destination and the same value; a value already
\* delivered, which only the sweep could send, is in no envelope.
C27_NoDuplicatePair ==
  Called("broadcast") =>
    /\ \A i, j \in 1..Len(out) :
         (i # j /\ out[i].body.body.type = "broadcast" /\ out[j].body.body.type = "broadcast")
           => (out[i].dest # out[j].dest \/ out[i].body.body.message # out[j].body.body.message)
    /\ InValue \in Pre.messages => BroadcastsOf(InValue) = 0

\* one output that carries the same new value to two neighbours
C27_Witness ==
  /\ Called("broadcast") /\ InValue \notin Pre.messages
  /\ Broadcasts(n2, InValue) = 1 /\ Broadcasts(n3, InValue) = 1

\* one output that carries two values, each to another peer
C27_WitnessTwoValues ==
  /\ Called("broadcast")
  /\ \E i, j \in 1..Len(out) : IsFanout(out[i]) /\ IsCatchUp(out[j]) /\ out[i].dest # out[j].dest

C29_OnlyBroadcastGossips ==
  /\ (inmsg # None /\ In.body.body.type \in {"init", "read", "topology"})
       => /\ Len(out) = 1
          /\ out[1].body.body.type = (CASE In.body.body.type = "init" -> "init_ok"
                                         [] In.body.body.type = "read" -> "read_ok"
                                         [] In.body.body.type = "topology" -> "topology_ok")
  /\ (inmsg # None /\ In.body.body.type # "broadcast")
       => \A i \in 1..Len(out) : out[i].body.body.type # "broadcast"

\* a Read, and a Topology, at a node with a tracked peer that has not shown
\* a delivered value
C29_Witness ==
  /\ Called("read")
  /\ \E p \in DOMAIN Pre.messages_shared_per_node : Pre.messages \ Pre.messages_shared_per_node[p] # {}

C29_WitnessTopology ==
  /\ Called("topology")
  /\ \E p \in DOMAIN Pre.messages_shared_per_node : Pre.messages \ Pre.messages_shared_per_node[p] # {}

\* the seen-set of p, empty when p has no entry
SeenOf(shared, p) == IF p \in DOMAIN shared THEN shared[p] ELSE {}

C30_WitnessBroadcastOk ==
  /\ Called("broadcast_ok") /\ In.src = Some(n2)
  /\ n2 \in DOMAIN Pre.messages_shared_per_node

\* C31. Once own_id has been assigned by an Init it keeps that value in every
\* later state, whatever is processed afterwards, and from then on the
\* neighbour set changes only when a Topology whose map has a key for own_id
\* is processed.
C31_IdentityFixed ==
  (inmsg # None /\ Pre.node_id # None) =>
    /\ node_id = Pre.node_id
    /\ node_ids # Pre.node_ids =>
          (Called("topology") /\ Pre.node_id[1] \in DOMAIN In.body.body.topology)

\* C32. Frame conditions of the handlers: a Broadcast leaves own_id and the
\* neighbour set as they were; an Init or a Topology leaves the delivered set
\* and the per-peer-seen map as they were; a Read leaves everything as it was
\* except the message-id counter.
C32_Frames ==
  /\ Called("broadcast") =>
       /\ node_id = Pre.node_id
       /\ node_ids = Pre.node_ids
  /\ (Called("init") \/ Called("topology")) =>
       /\ messages = Pre.messages
       /\ messages_shared_per_node = Pre.messages_shared_per_node
  /\ Called("read") => Self = [Pre EXCEPT !.id = Pre.id + 1]

\* a Topology that changes the neighbour set of a node that has delivered a
\* value and tracks a peer
C32_Witness ==
  /\ Called("topology")
  /\ node_ids # Pre.node_ids
  /\ Pre.messages # {}
  /\ Pre.messages_shared_per_node # EmptyMap

\* a Broadcast of a new value, fanned out by a node that knows who it is
C32_WitnessBroadcast ==
  /\ Called("broadcast")
  /\ Pre.node_id # None /\ Pre.node_ids # {}
  /\ messages # Pre.messages
  /\ Len(out) > 1

\* a Read on a node that knows who it is and has delivered a value
C32_WitnessRead ==
  /\ Called("read")
  /\ Pre.node_id # None /\ Pre.node_ids # {}
  /\ Pre.messages # {}

\* an Init on a node that has delivered a value and tracks a peer
C32_WitnessInit ==
  /\ Called("init")
  /\ Pre.messages # {}
  /\ Pre.messages_shared_per_node # EmptyMap

\* an envelope, and a node, with the message-id counter left out: no arm of
\* process() reads the counter or an inbound msg_id to decide what to do
WithoutMsgId(e) == [e EXCEPT !.body.msg_id = None]

WithoutId(node) == [node EXCEPT !.id = InitialId]

\* The client has sent its last Broadcast and exactly one envelope e, from a
\* to b, is in flight.  Whatever the iteration orders, b answers e with
\* exactly one envelope to a and is left as it was, and a answers that one
\* with e again and is left as it was, the id counters apart.  Delivery is
\* the only step such a state allows, and two deliveries lead back to it: a
\* broadcast envelope stays in flight for ever.
GossipLoop ==
  /\ clientSent = MaxGossipBroadcasts
  /\ \E e \in BagToSet(network) :
       /\ network = SetToBag({e})
       /\ e.src # None /\ e.src[1] \in NodeNames
       /\ LET a == e.src[1]
              b == e.dest[1]
          IN \A o1 \in Orders(nodes[b], e) :
               LET r1 == process(nodes[b], e, o1[1], o1[2], o1[3])
                   back == ToNodes(r1.out)
               IN /\ Len(back) = 1
                  /\ back[1].dest = Some(a)
                  /\ WithoutId(r1.node) = WithoutId(nodes[b])
                  /\ \A o2 \in Orders(nodes[a], back[1]) :
                       LET r2 == process(nodes[a], back[1], o2[1], o2[2], o2[3])
                           again == ToNodes(r2.out)
                       IN /\ Len(again) = 1
                          /\ WithoutMsgId(again[1]) = WithoutMsgId(e)
                          /\ WithoutId(r2.node) = WithoutId(nodes[a])

\* C33. Over a reliable network, after the clients have sent finitely many
\* Broadcasts, gossip eventually quiesces: a state is reached with no
\* broadcast envelope in flight, after which no node emits a fanout or a
\* catch-up envelope.  So no state is reached, after the client's last
\* Broadcast, from which every run keeps a broadcast envelope in flight for
\* ever.
C33_GossipQuiesces == ~GossipLoop

\* C34. In the transport loop, an envelope whose processing returns an error
\* and an input that is not a valid envelope both produce no outbound
\* envelope, leave the node state as it was and do not stop the loop: the
\* loop goes on reading, so that every later valid envelope is processed in
\* arrival order.
C34_LoopSurvives ==
  /\ (inmsg # None /\ ~ok) => (out = <<>> /\ Self = Pre /\ running)
  /\ invalid => (out = <<>> /\ Self = Pre /\ running)
====
